---- MODULE Spec2Model ----
(***************************************************************************)
(* Chicken Hop (the voice-controlled hopping game of jodeleeuw/vibe-games) *)
(* as a state machine: the React state of the ChickenHop component, its    *)
(* refs, the closure of the game-loop effect, the browser clock, the       *)
(* microphone permission prompt and localStorage.                          *)
(*                                                                         *)
(* Units.  Times are milliseconds of Date.now().  Horizontal positions of  *)
(* the chicken and of the camera are kept in 1/JUMP_ANIMATION_DURATION     *)
(* pixels (Px), vertical positions in 1/FALL_DURATION^2 pixels (Py), so    *)
(* that the linear interpolation of a jump and the quadratic ease of a     *)
(* fall are exact integers and every comparison of the code is decided as  *)
(* the code decides it.  Platform positions are whole pixels.              *)
(***************************************************************************)
EXTENDS Integers, Sequences, FiniteSets

\* ------------------------------------------------------------ constants
CANVAS_WIDTH == 800
CANVAS_HEIGHT == 600
CHICKEN_SIZE == 40
PLATFORM_WIDTH == 80
PLATFORM_Y == 400
UNIT_DISTANCE == 120
JUMP_ANIMATION_DURATION == 300
VOLUME_THRESHOLD_1 == 15
VOLUME_THRESHOLD_2 == 30
VOLUME_THRESHOLD_3 == 50
HOP_COOLDOWN == 350
FALL_DURATION == 800
SOUND_GATE == 250
INITIAL_PLATFORMS == 30
EASY_PLATFORMS == 10
MEDIUM_PLATFORMS == 20
FIRST_PLATFORM_X == 100
CAMERA_OFFSET == 200
EVICT_MARGIN == 200

\* --------------------------------------------------------------- bounds
\* Date.now() when the page is loaded (far from the 0 that lastHopTime and
\* soundEffectGate start at).
StartTime == 1000
\* The clock is followed for this many milliseconds after the page load.
MaxElapsed == 4000
\* Start clicks in one page lifetime.
MaxClicks == 2
\* After overlapping Start clicks the clock is followed for this long only.
OverlapElapsed == 800
\* Consecutive evaluated ticks the player stays silent, and stays loud.
MaxQuiet == 1
MaxLoud == 2
\* A permission prompt is answered at most this long after the page load.
MaxPromptDelay == 400

\* Milliseconds between two animation frames.
FrameDeltas == {100, 300}
\* Milliseconds between a state update and the effect React re-runs for it.
CommitDelays == {0}
\* Loudness samples (mean of the analyser's byte frequency data): the three
\* thresholds and one value above them.
Volumes == {15, 30, 50, 60}
\* Outcomes of Math.random(), in hundredths.
RandomDraws == {0, 25, 50, 75}
\* Decimal high scores a previous page lifetime may have left in localStorage.
SavedScores == {8}

VARIABLES
    now,               \* Date.now()
    isPlaying,         \* useState
    score,             \* useState
    highScore,         \* useState
    gameOver,          \* useState
    micPermission,     \* useState
    storage,           \* localStorage item 'chickenHopHighScore' (NoItem or digits)
    audioContext,      \* audioContextRef.current is set
    analyser,          \* analyserRef.current is set
    soundEffectGate,   \* soundEffectGateRef.current
    chicken,           \* chickenRef.current
    platforms,         \* platformsRef.current
    currentPlatformId, \* currentPlatformIdRef.current
    cameraX,           \* cameraXRef.current (Px)
    rafPending,        \* animation frame callbacks requested and neither run nor cancelled
    loop,              \* the closure of the game-loop effect
    awaiting,          \* startGame calls suspended in `await initMicrophone()`
    clicks,            \* Start clicks so far
    gumCalls,          \* getUserMedia invocations so far
    gumDenied,         \* getUserMedia rejections so far
    mounted,           \* the component is mounted
    micStream,         \* micStreamRef.current: 0 (null) or the number of the stream
    openStreams,       \* media streams acquired and not stopped
    openContexts,      \* audio contexts created and not closed
    hist,              \* history of the last step and of the current flight
    spelling           \* the SpellingIE component: its state, refs, timers and closure

\* The variables of the ChickenHop component.
hopVars == <<now, isPlaying, score, highScore, gameOver, micPermission, storage,
             audioContext, analyser, soundEffectGate, chicken, platforms,
             currentPlatformId, cameraX, rafPending, loop, awaiting, clicks,
             gumCalls, gumDenied, mounted, micStream, openStreams, openContexts, hist>>

vars == <<hopVars, spelling>>

\* -------------------------------------------------------------- helpers
Px(n) == n * JUMP_ANIMATION_DURATION
Py(n) == n * FALL_DURATION * FALL_DURATION
Min(a, b) == IF a < b THEN a ELSE b
Max(a, b) == IF a > b THEN a ELSE b
Last(s) == s[Len(s)]

NoItem == <<>>

\* Number.prototype.toString of a non-negative integer: its decimal digits.
RECURSIVE NumberToString(_)
NumberToString(n) ==
    IF n < 10 THEN <<n>> ELSE Append(NumberToString(n \div 10), n % 10)

\* parseInt of a string of decimal digits.
RECURSIVE ParseInt(_)
ParseInt(s) == IF Len(s) = 1 THEN s[1]
               ELSE 10 * ParseInt(SubSeq(s, 1, Len(s) - 1)) + s[Len(s)]

\* `saved ? parseInt(saved) : 0`
LoadHighScore(saved) == IF saved # NoItem THEN ParseInt(saved) ELSE 0

\* Array.prototype.find(p => p.id === id): the index of the first match, 0 if none.
FindPlatform(P, id) ==
    IF \E i \in 1..Len(P) : P[i].id = id
    THEN CHOOSE i \in 1..Len(P) : P[i].id = id /\ \A j \in 1..(i - 1) : P[j].id # id
    ELSE 0

\* The chicken put at the left edge of the platform (no centring).
CentredOnEdge(p) == Px(p.x)

\* x of the chicken standing centred on platform p (Px).
CentredOn(p) == Px(p.x + PLATFORM_WIDTH \div 2 - CHICKEN_SIZE \div 2)

\* ------------------------------------------------------------- initGame
\* A gap drawn from the hardest mix whatever the position.
InitDistanceMixed(i, draw) == <<1, 1, 2, 3>>[(draw * 4) \div 100 + 1]

\* The gap of the i-th platform initGame creates, from one Math.random() draw.
InitDistance(i, draw) ==
    IF i < EASY_PLATFORMS THEN 1
    ELSE IF i < MEDIUM_PLATFORMS THEN (IF draw < 70 THEN 1 ELSE 2)
    ELSE <<1, 1, 2, 3>>[(draw * 4) \div 100 + 1]

\* The for loop of initGame from iteration i on; stream[i] is its i-th draw.
RECURSIVE BuildPlatforms(_, _, _)
BuildPlatforms(P, i, stream) ==
    IF i >= INITIAL_PLATFORMS THEN P
    ELSE LET distance == InitDistance(i, stream[i])
             lastX == Last(P).x + UNIT_DISTANCE * distance
             positionId == Last(P).id + distance
         IN  BuildPlatforms(
                 Append(P, [x |-> lastX, y |-> PLATFORM_Y,
                            distance |-> distance, id |-> positionId]),
                 i + 1, stream)

InitialPlatforms(stream) ==
    BuildPlatforms(<<[x |-> FIRST_PLATFORM_X, y |-> PLATFORM_Y, distance |-> 1, id |-> 0]>>,
                   0, stream)

\* The chicken initGame creates.
InitialChicken ==
    [x |-> Px(FIRST_PLATFORM_X + PLATFORM_WIDTH \div 2 - CHICKEN_SIZE \div 2),
     y |-> Py(PLATFORM_Y - CHICKEN_SIZE),
     isJumping |-> FALSE, isFalling |-> FALSE,
     fallStartTime |-> 0, jumpStartTime |-> 0,
     jumpStartX |-> 0, jumpEndX |-> 0,
     jumpDistance |-> 0, targetPlatformId |-> 0]

\* The chicken of useRef, before any initGame.
MountChicken == [InitialChicken EXCEPT !.x = Px(100)]

\* ------------------------------------------------------------- gameLoop
\* One run of gameLoop works on a record s of everything it reads or writes:
\* the refs (chicken, platforms, currentPlatformId, cameraX, soundEffectGate,
\* audioContext), the variables of its closure (lastHopTime, soundActive,
\* peakVolume and the score and highScore the effect captured), the React state
\* it sets (score, highScore, isPlaying, gameOver), storage, whether it returned
\* early (returned) and what happened in it (jumped, targetLive, landed, missed,
\* appended, evicted).

\* A getVolume that reads the microphone without an analyser.
GetVolumeUnchecked(hasAnalyser, sample) == sample

\* getVolume: 0 without an analyser, else the mean of the frequency data.
GetVolume(hasAnalyser, sample) == IF ~hasAnalyser THEN 0 ELSE sample

\* playSoundEffect / playFallSound: nothing without an audio context, else the
\* microphone is gated for SOUND_GATE ms.
PlaySound(s, t) ==
    IF ~s.audioContext THEN s ELSE [s EXCEPT !.soundEffectGate = t + SOUND_GATE]

\* An input gate that is open during a fall.
InputOpenWhileFalling(s, t) ==
    /\ ~s.chicken.isJumping
    /\ t > s.soundEffectGate
    /\ t - s.lastHopTime > HOP_COOLDOWN

\* An input gate that is open right after a sound effect.
InputOpenAfterSound(s, t) ==
    /\ ~s.chicken.isJumping
    /\ ~s.chicken.isFalling
    /\ t - s.lastHopTime > HOP_COOLDOWN

\* The condition under which a tick evaluates the sample.
InputOpen(s, t) ==
    /\ ~s.chicken.isJumping
    /\ ~s.chicken.isFalling
    /\ t > s.soundEffectGate
    /\ t - s.lastHopTime > HOP_COOLDOWN

\* A classification whose thresholds are inclusive.
HopStrengthInclusive(peakVolume) ==
    IF peakVolume >= VOLUME_THRESHOLD_3 THEN 3
    ELSE IF peakVolume >= VOLUME_THRESHOLD_2 THEN 2
    ELSE IF peakVolume >= VOLUME_THRESHOLD_1 THEN 1
    ELSE 0

\* hopStrength of the peak of the sound that just ended.
HopStrength(peakVolume) ==
    IF peakVolume > VOLUME_THRESHOLD_3 THEN 3
    ELSE IF peakVolume > VOLUME_THRESHOLD_2 THEN 2
    ELSE IF peakVolume > VOLUME_THRESHOLD_1 THEN 1
    ELSE 0

\* A jump that starts only when its target platform is live.
StartJumpIfLive(s, hopStrength, t) ==
    LET targetPlatformId == s.currentPlatformId + hopStrength
        i == FindPlatform(s.platforms, targetPlatformId)
    IN  IF i = 0 THEN s
        ELSE PlaySound([s EXCEPT !.chicken = [@ EXCEPT !.isJumping = TRUE,
                                                       !.jumpStartTime = t,
                                                       !.jumpStartX = s.chicken.x,
                                                       !.jumpEndX = CentredOn(s.platforms[i]),
                                                       !.jumpDistance = hopStrength,
                                                       !.targetPlatformId = targetPlatformId],
                                 !.lastHopTime = t,
                                 !.jumped = TRUE,
                                 !.targetLive = TRUE], t)

\* A jump whose estimated end is one unit ahead whatever its strength.
StartJumpOneUnit(s, hopStrength, t) ==
    LET targetPlatformId == s.currentPlatformId + hopStrength
        i == FindPlatform(s.platforms, targetPlatformId)
        targetX == IF i # 0 THEN CentredOn(s.platforms[i])
                   ELSE s.chicken.x + Px(UNIT_DISTANCE)
    IN  PlaySound([s EXCEPT !.chicken = [@ EXCEPT !.isJumping = TRUE,
                                                  !.jumpStartTime = t,
                                                  !.jumpStartX = s.chicken.x,
                                                  !.jumpEndX = targetX,
                                                  !.jumpDistance = hopStrength,
                                                  !.targetPlatformId = targetPlatformId],
                            !.lastHopTime = t,
                            !.jumped = TRUE,
                            !.targetLive = (i # 0)], t)

\* The jump of strength hopStrength started at time t.
StartJump(s, hopStrength, t) ==
    LET targetPlatformId == s.currentPlatformId + hopStrength
        i == FindPlatform(s.platforms, targetPlatformId)
        targetX == IF i # 0 THEN CentredOn(s.platforms[i])
                   ELSE s.chicken.x + Px(UNIT_DISTANCE * hopStrength)
    IN  PlaySound([s EXCEPT !.chicken = [@ EXCEPT !.isJumping = TRUE,
                                                  !.jumpStartTime = t,
                                                  !.jumpStartX = s.chicken.x,
                                                  !.jumpEndX = targetX,
                                                  !.jumpDistance = hopStrength,
                                                  !.targetPlatformId = targetPlatformId],
                            !.lastHopTime = t,
                            !.jumped = TRUE,
                            !.targetLive = (i # 0)], t)

\* Peak detection that hops on the rising edge, as soon as a sample is loud.
PeakDetectionOnRise(s, volume, t) ==
    IF ~InputOpen(s, t) THEN s
    ELSE IF volume > VOLUME_THRESHOLD_1
    THEN StartJump([s EXCEPT !.evaluated = TRUE], HopStrength(volume), t)
    ELSE [s EXCEPT !.evaluated = TRUE]

\* Peak detection: track the peak while the sound lasts, hop when it ends.
PeakDetection(s, volume, t) ==
    IF ~InputOpen(s, t) THEN s
    ELSE IF volume > VOLUME_THRESHOLD_1
    THEN [s EXCEPT !.soundActive = TRUE,
                   !.peakVolume = Max(s.peakVolume, volume),
                   !.evaluated = TRUE]
    ELSE IF s.soundActive
    THEN LET hopStrength == HopStrength(s.peakVolume)
             quiet == [s EXCEPT !.soundActive = FALSE, !.peakVolume = 0,
                                !.evaluated = TRUE]
         IN  IF hopStrength > 0 THEN StartJump(quiet, hopStrength, t) ELSE quiet
    ELSE [s EXCEPT !.evaluated = TRUE]

\* Math.sin(progress * Math.PI) * jumpHeight in Py, progress = ms / 300.  The
\* sine is replaced by the parabola 4p(1-p) with the same zeros and apex: the
\* code compares y only with CANVAS_HEIGHT, below which both stay in a flight.
JumpArc(ms, jumpDistance) ==
    LET jumpHeight == 80 + jumpDistance * 20
    IN  (jumpHeight * ms * (JUMP_ANIMATION_DURATION - ms) * 256) \div 9

\* A landing that sets the score from the id the tick read when it began.
LandStaleScore(s, targetPlatform, t) ==
    PlaySound([s EXCEPT !.chicken = [@ EXCEPT !.x = CentredOn(targetPlatform),
                                             !.y = Py(PLATFORM_Y - CHICKEN_SIZE),
                                             !.isJumping = FALSE,
                                             !.jumpDistance = 0],
                       !.currentPlatformId = s.chicken.targetPlatformId,
                       !.score = s.currentPlatformId,
                       !.landed = TRUE], t)

\* A landing that leaves jumpDistance as the jump set it.
LandKeepsDistance(s, targetPlatform, t) ==
    PlaySound([s EXCEPT !.chicken = [@ EXCEPT !.x = CentredOn(targetPlatform),
                                             !.y = Py(PLATFORM_Y - CHICKEN_SIZE),
                                             !.isJumping = FALSE],
                       !.currentPlatformId = s.chicken.targetPlatformId,
                       !.score = s.chicken.targetPlatformId,
                       !.landed = TRUE], t)

\* Successful landing on targetPlatform.
Land(s, targetPlatform, t) ==
    PlaySound([s EXCEPT !.chicken = [@ EXCEPT !.x = CentredOn(targetPlatform),
                                             !.y = Py(PLATFORM_Y - CHICKEN_SIZE),
                                             !.isJumping = FALSE,
                                             !.jumpDistance = 0],
                       !.currentPlatformId = s.chicken.targetPlatformId,
                       !.score = s.chicken.targetPlatformId,
                       !.landed = TRUE], t)

\* A miss that leaves the chicken standing where the jump ended.
MissStands(s, t) ==
    [s EXCEPT !.chicken = [@ EXCEPT !.y = Py(PLATFORM_Y - CHICKEN_SIZE),
                                   !.isJumping = FALSE,
                                   !.jumpDistance = 0],
              !.missed = TRUE]

\* Missed: start the falling animation.
Miss(s, t) ==
    PlaySound([s EXCEPT !.chicken = [@ EXCEPT !.isJumping = FALSE,
                                             !.isFalling = TRUE,
                                             !.fallStartTime = t,
                                             !.jumpDistance = 0],
                       !.missed = TRUE], t)

\* Animate jump; at progress 1 land on the target platform or start falling.
AnimateJump(s, t) ==
    IF ~s.chicken.isJumping THEN s
    ELSE
    LET c == s.chicken
        elapsed == t - c.jumpStartTime
        ms == Min(elapsed, JUMP_ANIMATION_DURATION)
        x == c.jumpStartX + ((c.jumpEndX - c.jumpStartX) * ms) \div JUMP_ANIMATION_DURATION
        y == Py(PLATFORM_Y - CHICKEN_SIZE) - JumpArc(ms, c.jumpDistance)
        moved == [s EXCEPT !.chicken = [@ EXCEPT !.x = x, !.y = y]]
        i == FindPlatform(s.platforms, c.targetPlatformId)
    IN  IF ms < JUMP_ANIMATION_DURATION THEN moved
        ELSE IF i # 0 THEN Land(moved, s.platforms[i], t)
        ELSE Miss(moved, t)

\* Both game-over branches: the overlay state, and the high score if the score
\* the effect captured beats the high score it captured.
ReportGameOver(s) ==
    LET over == [s EXCEPT !.gameOver = TRUE, !.isPlaying = FALSE, !.returned = TRUE]
    IN  IF s.capturedScore > s.capturedHighScore
        THEN [over EXCEPT !.highScore = s.capturedScore,
                          !.storage = NumberToString(s.capturedScore)]
        ELSE over

\* Animate falling; game over when the fall is complete.
AnimateFalling(s, t) ==
    IF ~s.chicken.isFalling THEN s
    ELSE
    LET fallElapsed == t - s.chicken.fallStartTime
        ms == Min(fallElapsed, FALL_DURATION)
        fallen == [s EXCEPT !.chicken = [@ EXCEPT
                       !.y = Py(PLATFORM_Y - CHICKEN_SIZE) + ms * ms * CANVAS_HEIGHT]]
    IN  IF ms >= FALL_DURATION THEN ReportGameOver(fallen) ELSE fallen

\* Camera follow.
FollowCamera(s) == [s EXCEPT !.cameraX = s.chicken.x - Px(CAMERA_OFFSET)]

\* A gap drawn from the hard mix whatever the score.
PlayDistanceMixed(capturedScore, draw) == <<1, 1, 2, 3>>[(draw * 4) \div 100 + 1]

\* The gap of a platform appended during play, by the captured score.
PlayDistance(capturedScore, draw) ==
    IF capturedScore < 10 THEN 1
    ELSE IF capturedScore < 20 THEN (IF draw < 70 THEN 1 ELSE 2)
    ELSE IF capturedScore < 40 THEN <<1, 1, 2, 3>>[(draw * 4) \div 100 + 1]
    ELSE <<1, 2, 2, 3>>[(draw * 4) \div 100 + 1]

\* A new platform numbered one after the last, whatever its gap.
NewPlatformNextId(lastPlatform, distance) ==
    [x |-> lastPlatform.x + UNIT_DISTANCE * distance, y |-> PLATFORM_Y,
     distance |-> distance, id |-> lastPlatform.id + 1]

\* The platform pushed after lastPlatform with gap distance.
NewPlatform(lastPlatform, distance) ==
    [x |-> lastPlatform.x + UNIT_DISTANCE * distance, y |-> PLATFORM_Y,
     distance |-> distance, id |-> lastPlatform.id + distance]

\* A generator that pushes a platform on every tick.
GeneratePlatformsAlways(s, draw) ==
    [s EXCEPT !.pushed = Append(s.platforms,
                                NewPlatform(Last(s.platforms),
                                            PlayDistance(s.capturedScore, draw))),
              !.appended = TRUE]

\* Generate a new platform when the last one is within two canvas widths.
GeneratePlatforms(s, draw) ==
    LET lastPlatform == Last(s.platforms)
        distance == PlayDistance(s.capturedScore, draw)
    IN  IF Px(lastPlatform.x) < s.chicken.x + Px(CANVAS_WIDTH * 2)
        THEN [s EXCEPT !.pushed = Append(s.platforms, NewPlatform(lastPlatform, distance)),
                       !.appended = TRUE]
        ELSE [s EXCEPT !.pushed = s.platforms]

\* A filter that keeps what is behind the margin and drops the rest.
OffScreen(p, camX) == Px(p.x) <= camX - Px(EVICT_MARGIN)

\* The filter without its trailing margin.
OnScreenNoMargin(p, camX) == Px(p.x) > camX

\* The filter of `Remove off-screen platforms`.
OnScreen(p, camX) == Px(p.x) > camX - Px(EVICT_MARGIN)

\* platformsRef.current = platforms.filter(...); `platforms` stays the array
\* the tick started with, grown by the push (s.pushed).
RemoveOffscreen(s) ==
    LET kept == SelectSeq(s.pushed, LAMBDA p : OnScreen(p, s.cameraX))
    IN  [s EXCEPT !.platforms = kept, !.evicted = (Len(kept) < Len(s.pushed))]

\* A check that only looks for a jump past the last platform.
CheckGameOverNoFall(s) ==
    IF /\ s.chicken.isJumping
       /\ s.chicken.x > Px(Last(s.pushed).x + PLATFORM_WIDTH)
    THEN ReportGameOver(s)
    ELSE s

\* Check game over (fell off screen or flew past the last platform).
CheckGameOver(s) ==
    IF \/ s.chicken.y > Py(CANVAS_HEIGHT)
       \/ /\ s.chicken.isJumping
          /\ s.chicken.x > Px(Last(s.pushed).x + PLATFORM_WIDTH)
    THEN ReportGameOver(s)
    ELSE s

\* requestAnimationFrame(gameLoop) at the end of a tick that did not return.
RequestFrame(s) == IF s.returned THEN s ELSE [s EXCEPT !.rafPending = @ + 1]

\* The rest of a tick whose falling animation did not return.
AfterFalling(s, draw) ==
    IF s.returned THEN s
    ELSE CHOOSE r \in {CheckGameOver(s3) : s3 \in
                {RemoveOffscreen(s2) : s2 \in
                 {GeneratePlatforms(s1, draw) : s1 \in {FollowCamera(s)}}}} : TRUE

\* gameLoop at time t with loudness sample volume and Math.random() draw.
\* Each stage works on the value the stage before it produced.
GameLoop(s, volume, t, draw) ==
    CHOOSE r \in {RequestFrame(s4) : s4 \in
            {AfterFalling(s3, draw) : s3 \in
             {AnimateFalling(s2, t) : s2 \in
              {AnimateJump(s1, t) : s1 \in {PeakDetection(s, volume, t)}}}}} : TRUE

\* ------------------------------------------------------- the component
\* Sequences of Math.random() draws one initGame may see (one per iteration).
Streams ==
    { [i \in 0..(INITIAL_PLATFORMS - 1) |-> 0],
      [i \in 0..(INITIAL_PLATFORMS - 1) |->
            IF i < MEDIUM_PLATFORMS THEN (IF i % 2 = 0 THEN 75 ELSE 0)
            ELSE <<75, 0, 50, 25>>[(i % 4) + 1]] }

\* A dependency list that leaves out the score.
EffectDepsWithoutScore == <<isPlaying, highScore>>

\* The dependency list of the game-loop effect.
EffectDeps == <<isPlaying, score, highScore>>

\* React has a state update to commit: the effect's dependencies changed.
EffectDue == EffectDeps # loop.deps

NoLoop ==
    [live |-> FALSE, deps |-> <<FALSE, 0, 0>>, lastHopTime |-> 0, soundActive |-> FALSE, peakVolume |-> 0,
     score |-> 0, highScore |-> 0]

\* The closure a run of the effect creates while isPlaying.
NewLoop ==
    [live |-> TRUE, deps |-> EffectDeps, lastHopTime |-> 0, soundActive |-> FALSE,
     peakVolume |-> 0, score |-> score, highScore |-> highScore]

NoHist ==
    [op |-> "mount", streak |-> 0, risen |-> FALSE, jumped |-> FALSE, jumpRisen |-> FALSE,
     jumpSample |-> -1, targetLive |-> FALSE, landed |-> FALSE, missed |-> FALSE,
     appended |-> FALSE, evicted |-> FALSE, init |-> FALSE, peak |-> 0]

\* hist after an operation that is no tick.
Did(op) == [NoHist EXCEPT !.op = op, !.streak = hist.streak, !.risen = hist.risen,
                          !.targetLive = hist.targetLive, !.peak = hist.peak]

\* hist after an operation that leaves no closure of the game loop.
Gone(op) == [NoHist EXCEPT !.op = op]

\* What a run of gameLoop by closure cl starts from.
World(cl) ==
    [chicken |-> chicken, platforms |-> platforms, pushed |-> platforms,
     currentPlatformId |-> currentPlatformId, cameraX |-> cameraX,
     soundEffectGate |-> soundEffectGate, audioContext |-> audioContext,
     lastHopTime |-> cl.lastHopTime, soundActive |-> cl.soundActive,
     peakVolume |-> cl.peakVolume,
     capturedScore |-> cl.score, capturedHighScore |-> cl.highScore,
     score |-> score, highScore |-> highScore, isPlaying |-> isPlaying,
     gameOver |-> gameOver, storage |-> storage,
     rafPending |-> rafPending, returned |-> FALSE, evaluated |-> FALSE,
     jumped |-> FALSE, targetLive |-> FALSE, landed |-> FALSE, missed |-> FALSE,
     appended |-> FALSE, evicted |-> FALSE]

\* A cleanup that cancels nothing.
CancelNothing(pending) == pending

\* The cleanup of the game-loop effect, on the number of callbacks due:
\* cancelAnimationFrame(animationRef.current) cancels the one requested last.
CancelFrame(pending) == IF pending > 0 THEN pending - 1 ELSE 0

\* One call of gameLoop by closure cl at time t, with pending callbacks due.
RunLoop(cl, pending, risen, streak, t, sample, draw, op) ==
    LET volume == GetVolume(analyser, sample) IN
    \E r \in {GameLoop([World(cl) EXCEPT !.rafPending = pending], volume, t, draw)} :
        /\ now' = t
        /\ chicken' = r.chicken
        /\ platforms' = r.platforms
        /\ currentPlatformId' = r.currentPlatformId
        /\ cameraX' = r.cameraX
        /\ soundEffectGate' = r.soundEffectGate
        /\ score' = r.score
        /\ highScore' = r.highScore
        /\ isPlaying' = r.isPlaying
        /\ gameOver' = r.gameOver
        /\ storage' = r.storage
        /\ rafPending' = r.rafPending
        /\ loop' = [cl EXCEPT !.lastHopTime = r.lastHopTime,
                              !.soundActive = r.soundActive,
                              !.peakVolume = r.peakVolume]
        /\ hist' = [op |-> op,
                    streak |-> IF r.jumped THEN 0
                               ELSE IF ~r.evaluated THEN streak
                               ELSE IF r.soundActive = cl.soundActive THEN streak + 1
                               ELSE 1,
                    risen |-> IF r.jumped THEN FALSE
                              ELSE risen \/ (r.evaluated /\ volume > VOLUME_THRESHOLD_1),
                    jumped |-> r.jumped,
                    jumpRisen |-> r.jumped /\ risen,
                    jumpSample |-> IF r.jumped THEN volume ELSE -1,
                    targetLive |-> IF r.jumped THEN r.targetLive
                                   ELSE hist.targetLive /\ r.chicken.isJumping,
                    landed |-> r.landed, missed |-> r.missed,
                    appended |-> r.appended, evicted |-> r.evicted, init |-> FALSE,
                    peak |-> LET prior == IF op = "frame" THEN hist.peak ELSE 0
                             IN  IF ~r.evaluated THEN prior
                                 ELSE IF volume > VOLUME_THRESHOLD_1
                                 THEN Max(prior, volume)
                                 ELSE 0]
        /\ UNCHANGED <<micPermission, audioContext, analyser, awaiting, clicks,
                       gumCalls, gumDenied, mounted, micStream, openStreams,
                       openContexts>>

\* The samples a tick at time t may read: any while its input is closed.
\* The player is silent for at most MaxQuiet evaluated ticks in a row and loud
\* for at most MaxLoud.
SamplesFrom(V, cl, t) ==
    LET loud == {v \in V : v > VOLUME_THRESHOLD_1} IN
    IF ~InputOpen(World(cl), t) THEN V
    ELSE IF cl.soundActive
    THEN (IF hist.streak >= MaxLoud THEN V \ loud ELSE V)
    ELSE (IF hist.streak >= MaxQuiet THEN loud ELSE V)

Samples(cl, t) == SamplesFrom(Volumes, cl, t)

\* The clock stops being followed at this time.
Horizon == StartTime + (IF clicks > 1 THEN OverlapElapsed ELSE MaxElapsed)

\* The draws a tick may see: Math.random() is not called below a score of 10.
DrawsFrom(D, cl) == IF cl.score < 10 THEN {0} ELSE D

Draws(cl) == DrawsFrom(RandomDraws, cl)

\* An initGame that leaves the score of the session before.
InitGameKeepsScore(stream) ==
    /\ platforms' = InitialPlatforms(stream)
    /\ chicken' = InitialChicken
    /\ cameraX' = InitialChicken.x - Px(CAMERA_OFFSET)
    /\ currentPlatformId' = 0
    /\ score' = score
    /\ IF mounted
       THEN /\ gameOver' = FALSE
            /\ isPlaying' = TRUE
       ELSE UNCHANGED <<gameOver, isPlaying>>

\* initGame with the draws of stream.  The state setters do nothing once the
\* component is unmounted.
InitGame(stream) ==
    /\ platforms' = InitialPlatforms(stream)
    /\ chicken' = InitialChicken
    /\ cameraX' = InitialChicken.x - Px(CAMERA_OFFSET)
    /\ currentPlatformId' = 0
    /\ IF mounted
       THEN /\ score' = 0
            /\ gameOver' = FALSE
            /\ isPlaying' = TRUE
       ELSE UNCHANGED <<score, gameOver, isPlaying>>

\* `if (micPermission !== 'denied')` of startGame, on the micPermission the
\* call captured when it was made.
MayInit(captured) == captured # "denied"

(***************************************************************************)
(* SpellingIE (src/games/spelling-ie/SpellingIE.tsx).  Heights and speeds  *)
(* are kept in tenths of a pixel, the grain of SPEED_INCREMENT (0.1), so   *)
(* the arithmetic is exact where the code's is floating point.  Times are  *)
(* kept relative: the code only compares Date.now() with lastSpawnTimeRef  *)
(* and counts the 300 ms of the removal timeout.                           *)
(***************************************************************************)
WORD_HEIGHT == 60
INITIAL_LIVES == 5
INITIAL_FALL_SPEED == 1
MAX_FALL_SPEED == 3
\* SPEED_INCREMENT = 0.1, in tenths of a pixel per tick.
SPEED_INCREMENT_TENTHS == 1
\* `now - lastSpawnTimeRef.current > 500` of the game loop.
SPAWN_GAP == 500
\* The delay of the setTimeout that removes a correctly clicked word.
REMOVE_DELAY == 300
\* `clickedWord.speed = currentSpeed * 3` of a wrong click.
WRONG_SPEED_FACTOR == 3

Tenths(px) == px * 10

\* Words one game may spawn.
MaxWords == 22
\* Games (calls of initGame) in one page lifetime.
MaxGames == 2
\* Play Again is followed after a game that ended with one of these scores.
RestartScores == {0, 1}
\* The milliseconds between two animation frames.
SpellingFrameDeltas == {20}
\* The heights (px) a falling word has reached when the player clicks: as
\* soon as it is spawned, on its way down, or just above the ground.
ClickHeights == {-59, 100, 590}

\* The component after its first render and mount effect, nothing saved in
\* localStorage.  sinceSpawn is Date.now() - lastSpawnTimeRef.current, kept
\* up to SPAWN_GAP + 1; lastSpawnTimeRef starts at 0.  games counts the calls
\* of initGame; a word carries the number of its game next to its id, which
\* together stand for the identity of the word object.
SpellingMount ==
    [ isPlaying |-> FALSE, score |-> 0, lives |-> INITIAL_LIVES,
      highScore |-> 0, gameOver |-> FALSE,
      currentSpeed |-> Tenths(INITIAL_FALL_SPEED),
      storage |-> NoItem,
      fallingWords |-> <<>>, sinceSpawn |-> SPAWN_GAP + 1,
      wordIdCounter |-> 0, games |-> 0, timers |-> {}, rafPending |-> 0,
      loop |-> [live |-> FALSE, deps |-> <<FALSE, 0, INITIAL_LIVES, 0,
                                            Tenths(INITIAL_FALL_SPEED)>>,
                isPlaying |-> FALSE, score |-> 0, highScore |-> 0,
                currentSpeed |-> Tenths(INITIAL_FALL_SPEED)],
      hist |-> [op |-> "init", lost |-> 0, landedCorrect |-> FALSE,
                clicked |-> "none"] ]

\* The dependency list of the game-loop effect.
SpellingDeps(s) == <<s.isPlaying, s.score, s.lives, s.highScore, s.currentSpeed>>

\* A render is committed and its effect has not run yet.
SpellingEffectDue == SpellingDeps(spelling) # spelling.loop.deps

\* createNewWord: a word above the canvas, falling at the currentSpeed of the
\* render the loop closed over; the side of the correct spelling is random.
CreateNewWord(s, correctOnLeft) ==
    [ game |-> s.games, id |-> s.wordIdCounter, y |-> -Tenths(WORD_HEIGHT),
      speed |-> s.loop.currentSpeed, correctOnLeft |-> correctOnLeft,
      clickedSide |-> "null", clickedCorrectly |-> "null" ]

\* A spawn as soon as the list is empty.
SpawnDueWhenEmpty(s) == Len(s.fallingWords) = 0

\* `if (fallingWordsRef.current.length === 0 && now - lastSpawnTime > 500)`.
SpawnDue(s) == Len(s.fallingWords) = 0 /\ s.sinceSpawn > SPAWN_GAP

Spawn(s, correctOnLeft) ==
    IF SpawnDue(s)
    THEN [s EXCEPT !.fallingWords = <<CreateNewWord(s, correctOnLeft)>>,
                   !.wordIdCounter = @ + 1,
                   !.sinceSpawn = 0]
    ELSE s

\* `if (word.y >= CANVAS_HEIGHT)`.
HitGround(word) == word.y >= Tenths(CANVAS_HEIGHT)

CostsLifeAlways(word) == TRUE

\* `if (word.clickedCorrectly !== true)`: the word that hit the ground costs
\* a life.
CostsLife(word) == word.clickedCorrectly # "true"

\* A game that ends only below zero lives.
LivesRunOutBelowZero(newLives) == newLives < 0

\* `if (newLives <= 0)` of the setLives updater.
LivesRunOut(newLives) == newLives <= 0

\* One call of gameLoop by the closure of the running effect: spawn, move
\* every word, take a life for each word on the ground that was not clicked
\* correctly, end the game when the lives run out, drop the words on the
\* ground and request the next frame.
SpellingGameLoop(s, pending, correctOnLeft, op) ==
    LET s1 == Spawn(s, correctOnLeft)
        moved == [i \in DOMAIN s1.fallingWords |->
                     [s1.fallingWords[i] EXCEPT !.y = @ + s1.fallingWords[i].speed]]
        down == {i \in DOMAIN moved : HitGround(moved[i])}
        lost == Cardinality({i \in down : CostsLife(moved[i])})
        newLives == s1.lives - lost
        over == lost > 0 /\ LivesRunOut(newLives)
        record == over /\ s1.loop.score > s1.loop.highScore
    IN  [s1 EXCEPT
           !.fallingWords = SelectSeq(moved, LAMBDA w : ~HitGround(w)),
           !.lives = newLives,
           !.gameOver = IF over THEN TRUE ELSE @,
           !.isPlaying = IF over THEN FALSE ELSE @,
           !.highScore = IF record THEN s1.loop.score ELSE @,
           !.storage = IF record THEN NumberToString(s1.loop.score) ELSE @,
           !.rafPending = pending + 1,
           !.hist = [op |-> op, lost |-> lost,
                     landedCorrect |-> \E i \in down : moved[i].clickedCorrectly = "true",
                     clicked |-> "none"]]

\* dt milliseconds pass: Date.now() moves away from the last spawn and the
\* removal timeouts come nearer.
Elapse(s, dt) ==
    [s EXCEPT !.sinceSpawn = Min(@ + dt, SPAWN_GAP + 1),
              !.timers = {[t EXCEPT !.left = Max(@ - dt, 0)] : t \in s.timers}]

\* The word under a click, the first in the list (the handler breaks after
\* it); 0 when the click hits none.  A click hits a word whose box overlaps
\* the canvas.
WordUnder(s) ==
    LET hit == {i \in DOMAIN s.fallingWords :
                   /\ s.fallingWords[i].y + Tenths(WORD_HEIGHT) >= 0
                   /\ s.fallingWords[i].y < Tenths(CANVAS_HEIGHT)}
    IN  IF hit = {} THEN 0 ELSE CHOOSE i \in hit : \A j \in hit : i <= j

\* A handler that only checks that the game is running.
ClickIgnoredWhenStopped(s, word) == ~s.loop.isPlaying

\* `if (!isPlaying || clickedWord.clickedSide !== null) return`.
ClickIgnored(s, word) == ~s.loop.isPlaying \/ word.clickedSide # "null"

NextSpeedUncapped(prev) == prev + SPEED_INCREMENT_TENTHS

\* `Math.min(prev + SPEED_INCREMENT, MAX_FALL_SPEED)`, in tenths.
NextSpeed(prev) == Min(prev + SPEED_INCREMENT_TENTHS, Tenths(MAX_FALL_SPEED))

\* handleWordClick on word i with the chosen side, by the closure of the
\* running effect.
HandleWordClick(s, i, side) ==
    LET word == s.fallingWords[i]
        isCorrect == (side = "left") = word.correctOnLeft
        h == [op |-> "click", lost |-> 0, landedCorrect |-> FALSE, clicked |-> "ignored"]
    IN  IF ClickIgnored(s, word)
        THEN [s EXCEPT !.hist = h]
        ELSE IF isCorrect
        THEN [s EXCEPT
                !.fallingWords[i].clickedSide = side,
                !.fallingWords[i].clickedCorrectly = "true",
                !.score = @ + 1,
                !.currentSpeed = NextSpeed(@),
                !.timers = @ \cup {[game |-> word.game, id |-> word.id,
                                     left |-> REMOVE_DELAY]},
                !.hist = [h EXCEPT !.clicked = "correct"]]
        ELSE [s EXCEPT
                !.fallingWords[i].clickedSide = side,
                !.fallingWords[i].clickedCorrectly = "false",
                !.fallingWords[i].speed = s.loop.currentSpeed * WRONG_SPEED_FACTOR,
                !.hist = [h EXCEPT !.clicked = "wrong"]]

Init ==
    /\ now = StartTime
    /\ isPlaying = FALSE
    /\ score = 0
    /\ storage \in {NoItem} \cup {NumberToString(n) : n \in SavedScores}
    /\ highScore = LoadHighScore(storage)
    /\ gameOver = FALSE
    /\ micPermission = "pending"
    /\ audioContext = FALSE
    /\ analyser = FALSE
    /\ soundEffectGate = 0
    /\ chicken = MountChicken
    /\ platforms = <<>>
    /\ currentPlatformId = 0
    /\ cameraX = 0
    /\ rafPending = 0
    /\ loop = [NoLoop EXCEPT !.deps = <<FALSE, 0, LoadHighScore(storage)>>]
    /\ awaiting = <<>>
    /\ clicks = 0
    /\ gumCalls = 0
    /\ gumDenied = 0
    /\ mounted = TRUE
    /\ micStream = 0
    /\ openStreams = {}
    /\ openContexts = {}
    /\ hist = NoHist
    /\ spelling = SpellingMount

\* startGame up to its await, or all of it when it does not await.
StartGame ==
    /\ clicks' = clicks + 1
    /\ hist' = [Did("startGame") EXCEPT
                    !.init = (micPermission # "pending" /\ MayInit(micPermission))]
    /\ UNCHANGED <<now, highScore, micPermission, storage, audioContext, analyser,
                   soundEffectGate, rafPending, loop, gumDenied, mounted, micStream,
                   openStreams, openContexts>>
    /\ \E stream \in Streams :
        IF micPermission = "pending"
        THEN /\ gumCalls' = gumCalls + 1
             /\ awaiting' = Append(awaiting, micPermission)
             /\ UNCHANGED <<isPlaying, score, gameOver, chicken, platforms,
                            currentPlatformId, cameraX>>
        ELSE /\ UNCHANGED <<gumCalls, awaiting>>
             /\ IF MayInit(micPermission)
                THEN InitGame(stream)
                ELSE UNCHANGED <<isPlaying, score, gameOver, chicken, platforms,
                                 currentPlatformId, cameraX>>

\* A click on Start Game, shown while neither playing nor game over.
ClickStart ==
    /\ UNCHANGED spelling
    /\ mounted
    /\ ~isPlaying /\ ~gameOver /\ ~EffectDue
    /\ clicks < MaxClicks
    /\ StartGame

\* The rest of a suspended startGame once its initMicrophone has finished.
Resume(i, stream, op) ==
    /\ hist' = [Did(op) EXCEPT !.init = MayInit(awaiting[i])]
    /\ awaiting' = SubSeq(awaiting, 1, i - 1) \o SubSeq(awaiting, i + 1, Len(awaiting))
    /\ IF MayInit(awaiting[i])
       THEN InitGame(stream)
       ELSE UNCHANGED <<isPlaying, score, gameOver, chicken, platforms,
                        currentPlatformId, cameraX>>

\* setMicPermission, which does nothing once the component is unmounted.
SetMicPermission(outcome) ==
    micPermission' = IF mounted THEN outcome ELSE micPermission

\* getUserMedia resolves: initMicrophone keeps the stream, sets up the audio
\* context and the analyser, startGame resumes.
GrantedWith(streams) ==
    /\ UNCHANGED spelling
    /\ ~EffectDue
    /\ now <= StartTime + MaxPromptDelay
    /\ \E i \in DOMAIN awaiting, stream \in streams :
        /\ micStream' = micStream + 1
        /\ openStreams' = openStreams \cup {micStream + 1}
        /\ openContexts' = openContexts \cup {micStream + 1}
        /\ audioContext' = TRUE
        /\ analyser' = TRUE
        /\ SetMicPermission("granted")
        /\ Resume(i, stream, "granted")
    /\ UNCHANGED <<now, highScore, storage, soundEffectGate, rafPending, loop,
                   clicks, gumCalls, gumDenied, mounted>>

MicGranted == GrantedWith(Streams)

\* getUserMedia rejects: initMicrophone records the denial, startGame resumes.
MicDenied ==
    /\ UNCHANGED spelling
    /\ ~EffectDue
    /\ now <= StartTime + MaxPromptDelay
    /\ \E i \in DOMAIN awaiting, stream \in Streams :
        /\ SetMicPermission("denied")
        /\ Resume(i, stream, "denied")
    /\ gumDenied' = gumDenied + 1
    /\ UNCHANGED <<now, highScore, storage, audioContext, analyser, soundEffectGate,
                   rafPending, loop, clicks, gumCalls, mounted, micStream,
                   openStreams, openContexts>>

\* A click on Play Again (shown while game over).
RestartGame ==
    /\ UNCHANGED spelling
    /\ mounted
    /\ gameOver /\ ~EffectDue
    /\ \E stream \in Streams : InitGame(stream)
    /\ hist' = [Did("restartGame") EXCEPT !.init = TRUE]
    /\ UNCHANGED <<now, highScore, micPermission, storage, audioContext, analyser,
                   soundEffectGate, rafPending, loop, awaiting, clicks, gumCalls,
                   gumDenied, mounted, micStream, openStreams, openContexts>>

\* React commits a change of isPlaying, score or highScore: the cleanup of the
\* game-loop effect cancels the frame requested last, and the effect runs
\* again: while playing it makes a new closure and calls gameLoop at once.
CommitWith(V, D, horizon) ==
    /\ UNCHANGED spelling
    /\ mounted
    /\ EffectDue
    /\ IF isPlaying
       THEN \E d \in CommitDelays :
              \E sample \in SamplesFrom(V, NewLoop, now + d), draw \in DrawsFrom(D, NewLoop) :
                /\ now + d <= horizon
                /\ RunLoop(NewLoop, CancelFrame(rafPending), FALSE, 0, now + d,
                           sample, draw, "effect")
       ELSE /\ loop' = [NoLoop EXCEPT !.deps = EffectDeps]
            /\ rafPending' = CancelFrame(rafPending)
            /\ hist' = Gone("cleanup")
            /\ UNCHANGED <<now, isPlaying, score, highScore, gameOver, micPermission,
                           storage, audioContext, analyser, soundEffectGate, chicken,
                           platforms, currentPlatformId, cameraX, awaiting, clicks,
                           gumCalls, gumDenied, mounted, micStream, openStreams,
                           openContexts>>

Commit == CommitWith(Volumes, RandomDraws, Horizon)

\* The browser runs the requested animation frame callback.  A fall under
\* way at the horizon is followed to its end.
FrameWith(deltas, V, D, horizon) ==
    /\ UNCHANGED spelling
    /\ rafPending > 0 /\ loop.live /\ ~EffectDue
    /\ \E dt \in deltas :
      \E sample \in SamplesFrom(V, loop, now + dt), draw \in DrawsFrom(D, loop) :
        /\ now + dt <= horizon \/ chicken.isFalling
        /\ RunLoop(loop, rafPending - 1, hist.risen, hist.streak, now + dt,
                   sample, draw, "frame")

Frame == FrameWith(FrameDeltas, Volumes, RandomDraws, Horizon)

\* The page is left: React unmounts the component and runs the cleanups of
\* its effects, that of the game loop and that of the microphone.
Unmount ==
    /\ UNCHANGED spelling
    /\ mounted /\ ~EffectDue
    /\ mounted' = FALSE
    /\ loop' = [NoLoop EXCEPT !.deps = loop.deps]
    /\ rafPending' = CancelFrame(rafPending)
    /\ openStreams' = openStreams \ {micStream}
    /\ openContexts' = IF audioContext THEN openContexts \ {micStream} ELSE openContexts
    /\ hist' = Gone("unmount")
    /\ UNCHANGED <<now, isPlaying, score, highScore, gameOver, micPermission, storage,
                   audioContext, analyser, soundEffectGate, chicken, platforms,
                   currentPlatformId, cameraX, awaiting, clicks, gumCalls, gumDenied,
                   micStream>>

Next ==
    \/ ClickStart
    \/ MicGranted
    \/ MicDenied
    \/ RestartGame
    \/ Commit
    \/ Frame
    \/ Unmount

Spec == Init /\ [][Next]_vars

(***************************************************************************)
(* A long session: one Start click, the prompt granted, the player hopping *)
(* at full strength only, and frames that may come late.  It reaches the   *)
(* part of the course where platforms are generated during play.           *)
(***************************************************************************)

\* The clock of a long session is followed for this many milliseconds.
LongElapsed == 5300
\* Milliseconds between two animation frames of a long session.
LongFrameDeltas == {100, 300, 500}
\* A frame of a fall may also come this late: the two delays around the time
\* at which a falling chicken leaves the canvas.
LongFallDeltas == {505, 506}
\* Loudness samples of a long session: silence or a loud cluck.
LongVolumes == {15, 60}
\* Outcomes of Math.random() of a long session, in hundredths.
LongDraws == {0, 75}
\* The draws of initGame in a long session: every gap 1 but one gap of 2
\* after the platform with id 23.
LongStreams == { [i \in 0..(INITIAL_PLATFORMS - 1) |-> IF i = 23 THEN 50 ELSE 0] }

LongHorizon == StartTime + LongElapsed

LongStart == clicks = 0 /\ ClickStart

LongGranted == GrantedWith(LongStreams)

LongCommit == CommitWith(LongVolumes, LongDraws, LongHorizon)

LongFrame ==
    FrameWith(IF chicken.isFalling THEN LongFrameDeltas \cup LongFallDeltas
              ELSE LongFrameDeltas,
              LongVolumes, LongDraws, LongHorizon)

LongNext ==
    \/ LongStart
    \/ LongGranted
    \/ LongCommit
    \/ LongFrame

\* Nothing is saved in localStorage when a long session starts.
LongInit == Init /\ storage = NoItem

LongSpec == LongInit /\ [][LongNext]_vars

\* An animation frame of a falling chicken.
FallFrame == chicken.isFalling /\ Frame

\* The browser keeps running the animation frames requested during a fall.
FairSpec == Spec /\ WF_vars(FallFrame)

(***************************************************************************)
(* The steps of SpellingIE.                                                *)
(***************************************************************************)

\* initGame.
SpellingInitGame(s) ==
    [s EXCEPT !.fallingWords = <<>>,
              !.sinceSpawn = 0,
              !.wordIdCounter = 0,
              !.games = @ + 1,
              !.score = 0,
              !.lives = INITIAL_LIVES,
              !.currentSpeed = Tenths(INITIAL_FALL_SPEED),
              !.gameOver = FALSE,
              !.isPlaying = TRUE,
              !.hist = [op |-> "start", lost |-> 0,
                        landedCorrect |-> FALSE, clicked |-> "none"]]

\* The Start button of the overlay: startGame, initGame.
SpellingStart ==
    /\ ~spelling.isPlaying /\ ~spelling.gameOver /\ ~SpellingEffectDue
    /\ spelling' = SpellingInitGame(spelling)
    /\ UNCHANGED hopVars

\* The Play Again button of the game-over overlay: restartGame, initGame.
SpellingRestart ==
    /\ spelling.gameOver /\ ~SpellingEffectDue
    /\ spelling.games < MaxGames
    /\ spelling.score \in RestartScores
    /\ spelling' = SpellingInitGame(spelling)
    /\ UNCHANGED hopVars

\* The game spawns no more than MaxWords words.
WithinWords(s) == SpawnDue(s) => s.wordIdCounter < MaxWords

\* The game-loop effect after a render that changed a dependency: the
\* cleanup of the old effect cancels its frame and removes its click
\* listener; the new effect, when playing, closes over the render and calls
\* gameLoop at once.
SpellingCommit ==
    /\ SpellingEffectDue
    /\ spelling.isPlaying => WithinWords(spelling)
    /\ \E correctOnLeft \in BOOLEAN :
         LET closed == [spelling EXCEPT
                          !.loop = [live |-> spelling.isPlaying,
                                    deps |-> SpellingDeps(spelling),
                                    isPlaying |-> spelling.isPlaying,
                                    score |-> spelling.score,
                                    highScore |-> spelling.highScore,
                                    currentSpeed |-> spelling.currentSpeed]]
             pending == IF spelling.loop.live THEN CancelFrame(spelling.rafPending)
                        ELSE spelling.rafPending
         IN  spelling' =
               IF spelling.isPlaying
               THEN SpellingGameLoop(closed, pending, correctOnLeft, "effect")
               ELSE [closed EXCEPT !.rafPending = pending,
                                   !.hist = [op |-> "cleanup", lost |-> 0,
                                             landedCorrect |-> FALSE,
                                             clicked |-> "none"]]
    /\ UNCHANGED hopVars

\* The animation frame the loop requested comes due.  A timeout that is due
\* runs before the next frame.
SpellingFrame ==
    /\ spelling.rafPending > 0 /\ spelling.loop.live /\ ~SpellingEffectDue
    /\ \A t \in spelling.timers : t.left > 0
    /\ \E dt \in SpellingFrameDeltas, correctOnLeft \in BOOLEAN :
         /\ WithinWords(Elapse(spelling, dt))
         /\ spelling' = SpellingGameLoop(Elapse(spelling, dt), spelling.rafPending - 1,
                                         correctOnLeft, "frame")
    /\ UNCHANGED hopVars

\* The word has just fallen to one of the heights the player clicks at.
AtClickHeight(word) ==
    \E h \in ClickHeights : word.y >= Tenths(h) /\ word.y < Tenths(h) + word.speed

\* handleCanvasClick: a click on the left or right half of the first word
\* under the pointer, while the listener of the running effect is attached.
SpellingClick ==
    /\ spelling.loop.live /\ ~SpellingEffectDue
    /\ WordUnder(spelling) # 0
    /\ AtClickHeight(spelling.fallingWords[WordUnder(spelling)])
    /\ \E side \in {"left", "right"} :
         spelling' = HandleWordClick(spelling, WordUnder(spelling), side)
    /\ UNCHANGED hopVars

\* The timeout of a correct click runs: the word leaves the list.
SpellingTimeout ==
    /\ ~SpellingEffectDue
    /\ \E t \in spelling.timers :
         /\ t.left = 0
         /\ spelling' = [spelling EXCEPT
                           !.fallingWords = SelectSeq(@, LAMBDA w : w.id # t.id \/ w.game # t.game),
                           !.timers = @ \ {t},
                           !.hist = [op |-> "timeout", lost |-> 0,
                                     landedCorrect |-> FALSE, clicked |-> "none"]]
    /\ UNCHANGED hopVars

SpellingNext ==
    \/ SpellingStart
    \/ SpellingRestart
    \/ SpellingCommit
    \/ SpellingFrame
    \/ SpellingClick
    \/ SpellingTimeout

SpellingInit == Init /\ storage = NoItem

SpellingSpec == SpellingInit /\ [][SpellingNext]_vars

\* --------------------------------------------------------------- claims
\* The step is a run of gameLoop (an animation frame, or the call the effect makes).
IsTick == hist'.op \in {"frame", "effect"}

\* The step starts a jump.
JumpStarts == ~chicken.isJumping /\ chicken'.isJumping

\* The step is the tick on which the progress of the jump in flight reaches 1.
FlightEnds ==
    /\ chicken.isJumping
    /\ IsTick
    /\ now' - chicken.jumpStartTime >= JUMP_ANIMATION_DURATION

\* The step reports game over.
GameEnds == ~gameOver /\ gameOver'

PlatformSet(P) == {P[i] : i \in DOMAIN P}

\* C1: two jump starts of a session are more than HOP_COOLDOWN apart (also
\* across a landing, which re-creates the closure), and a jump starts only on
\* an evaluated tick whose sample is at most VOLUME_THRESHOLD_1 and that
\* follows an evaluated tick, since the previous jump, with a louder sample.
C1_JumpCooldownAndEdges ==
    [][JumpStarts =>
        /\ chicken.jumpStartTime # 0 => now' - chicken.jumpStartTime > HOP_COOLDOWN
        /\ hist'.jumped
        /\ hist'.jumpSample >= 0 /\ hist'.jumpSample <= VOLUME_THRESHOLD_1
        /\ hist'.jumpRisen]_vars

\* A second jump of a session has just started, on a sample at the threshold.
C1_Witness ==
    /\ hist.jumped
    /\ score > 0
    /\ hist.jumpSample = VOLUME_THRESHOLD_1
    /\ chicken.jumpStartTime = now

\* C2: a target platform that is live when the jump starts is still live on
\* every tick of the flight, and on the tick the flight ends the chicken is
\* grounded, centred on it, with currentPlatformId and score set to its id.
C2_LiveTargetLands ==
    [][(chicken.isJumping /\ hist.targetLive) =>
        LET i == FindPlatform(platforms, chicken.targetPlatformId) IN
        /\ i # 0
        /\ FlightEnds =>
            /\ ~chicken'.isJumping /\ ~chicken'.isFalling
            /\ chicken'.x = Px(platforms[i].x + 20)
            /\ chicken'.y = Py(PLATFORM_Y - CHICKEN_SIZE)
            /\ currentPlatformId' = chicken.targetPlatformId
            /\ score' = chicken.targetPlatformId
            /\ platforms[i].id = chicken.targetPlatformId]_vars

\* The example of the spec: a hop of strength 2 from platform 0 has landed.
C2_Witness ==
    /\ hist.landed
    /\ currentPlatformId = 2
    /\ score = 2
    /\ chicken.x = Px(FIRST_PLATFORM_X + 2 * UNIT_DISTANCE + 20)
    /\ ~chicken.isJumping /\ ~chicken.isFalling

\* C3: when the flight ends and no live platform has the target id, the
\* chicken starts falling at that time and currentPlatformId and score stay;
\* no later tick makes a falling chicken anything but falling.
C3_AbsentTargetFalls ==
    [][/\ (FlightEnds /\ FindPlatform(platforms, chicken.targetPlatformId) = 0) =>
            /\ chicken'.isFalling /\ ~chicken'.isJumping
            /\ chicken'.fallStartTime = now'
            /\ currentPlatformId' = currentPlatformId
            /\ score' = score
       /\ (chicken.isFalling /\ IsTick) =>
            /\ chicken'.isFalling /\ ~chicken'.isJumping
            /\ currentPlatformId' = currentPlatformId]_vars

\* The chicken missed and has been falling for some ticks.
C3_Witness ==
    /\ chicken.isFalling
    /\ ~hist.missed
    /\ now > chicken.fallStartTime
    /\ FindPlatform(platforms, chicken.targetPlatformId) = 0
    /\ score = currentPlatformId

\* C4: while the component is mounted, a tick never lowers the score; it
\* changes the score only by a landing, to the id of the platform landed on;
\* initGame makes it 0; the score is always currentPlatformId.
C4_ScoreMonotone ==
    [][mounted' =>
       /\ score = currentPlatformId
       /\ score' = currentPlatformId'
       /\ IF IsTick
          THEN /\ score' >= score
               /\ hist'.landed => score' = chicken.targetPlatformId /\ score' > score
               /\ ~hist'.landed => score' = score
          ELSE score' = score \/ (score' = 0 /\ chicken' = InitialChicken)]_vars

\* A second landing of a session.
C4_Witness ==
    /\ hist.landed
    /\ score = currentPlatformId
    /\ score > 3

\* C5: the step that reports game over (either branch) leaves highScore and
\* the stored item at the maximum of the best so far and the id of the
\* platform landed on last, and the score its closure captured is that id.
C5_BestIsMax ==
    [][GameEnds =>
        /\ loop.score = currentPlatformId
        /\ loop.highScore = highScore
        /\ highScore = LoadHighScore(storage)
        /\ highScore' = Max(highScore, currentPlatformId)
        /\ LoadHighScore(storage') = Max(LoadHighScore(storage), currentPlatformId)]_vars

\* Game over with a score that beat a stored best of 8.
C5_Witness ==
    /\ gameOver
    /\ currentPlatformId > 8
    /\ highScore = currentPlatformId
    /\ storage = NumberToString(currentPlatformId)
    /\ chicken.isFalling

\* C6: the platform with id currentPlatformId is live whenever there are
\* platforms, and a tick removes neither it nor the platform the chicken is
\* jumping to.
C6_EvictionKeepsCurrentAndTarget ==
    [][/\ platforms # <<>> => FindPlatform(platforms, currentPlatformId) # 0
       /\ IsTick =>
            \A p \in PlatformSet(platforms) :
                (\/ p.id = currentPlatformId
                 \/ p.id = currentPlatformId'
                 \/ chicken'.isJumping /\ p.id = chicken'.targetPlatformId)
                => p \in PlatformSet(platforms')]_vars

\* Mid-flight, everything behind the platform jumped from has been evicted
\* and the target is live.
C6_Witness ==
    /\ chicken.isJumping
    /\ hist.evicted
    /\ Head(platforms).id = currentPlatformId
    /\ FindPlatform(platforms, chicken.targetPlatformId) # 0

\* C7: the live platform list is strictly increasing in x and in id, and each
\* platform's id is its predecessor's id plus its own distance.
C7_PlatformsOrdered ==
    \A i \in 1..(Len(platforms) - 1) :
        /\ platforms[i + 1].x > platforms[i].x
        /\ platforms[i + 1].id > platforms[i].id
        /\ platforms[i + 1].id = platforms[i].id + platforms[i + 1].distance

\* A tick that appended a platform and evicted one.
C7_Witness ==
    /\ hist.appended
    /\ hist.evicted
    /\ Len(platforms) > 1

\* C8: a rejected getUserMedia does not start the game: initGame is not run
\* and isPlaying stays false.
C8_DeniedDoesNotStart ==
    [][gumDenied' > gumDenied =>
        /\ ~isPlaying'
        /\ UNCHANGED <<platforms, chicken, score, isPlaying>>]_vars

\* A call of startGame that calls getUserMedia.
StartAcquires == StartGame /\ gumCalls' = gumCalls + 1

\* C9: once micPermission is 'denied', a call of startGame calls getUserMedia
\* again.
C9_DeniedStartRetries == micPermission = "denied" => ENABLED StartAcquires

\* C10: getUserMedia is invoked at most once unless an earlier attempt was
\* denied, and micPermission is pending exactly until an attempt resolves.
C10_SingleAcquisition ==
    /\ gumCalls <= 1 + gumDenied
    /\ micPermission = "pending" <=> gumCalls = Len(awaiting)

\* C11: once the component is unmounted, every media stream ever acquired is
\* stopped and every audio context created is closed.
C11_TeardownReleases ==
    ~mounted => (openStreams = {} /\ openContexts = {})

\* C12: at most one animation frame callback is due at any time; none is due
\* after game over, after the cleanup of the loop effect or after unmount;
\* a tick runs only in a mounted component that is playing, and a frame tick
\* is the one callback due, of the live closure.
C12_OneFramePending ==
    [][/\ rafPending' <= 1
       /\ (gameOver' \/ ~loop'.live \/ ~mounted') => rafPending' = 0
       /\ IsTick => (mounted /\ mounted' /\ isPlaying /\ ~gameOver)
       /\ hist'.op = "frame" => (rafPending = 1 /\ loop.live)]_vars

\* The effect has re-created the loop after a landing and one callback is due.
C12_Witness ==
    /\ hist.op = "effect"
    /\ score > 0
    /\ loop.score = score
    /\ rafPending = 1

\* C13: a tick of a falling chicken starts no jump, lands nowhere and leaves
\* the score; the first tick 800 ms or more after fallStartTime reports game
\* over; and while frames keep running a fall ends in game over (unless the
\* page is left).
C13_FallingEndsInGameOver ==
    /\ [][(chicken.isFalling /\ IsTick) =>
            /\ ~hist'.jumped /\ ~hist'.landed
            /\ ~chicken'.isJumping /\ chicken'.isFalling
            /\ score' = score
            /\ chicken'.fallStartTime = chicken.fallStartTime
            /\ now' - chicken.fallStartTime >= FALL_DURATION =>
                    (gameOver' /\ ~isPlaying')]_vars
    /\ (chicken.isFalling /\ mounted) ~> (gameOver \/ ~mounted)

\* Game over reported by the tick on which the fall was complete.
C13_Witness ==
    /\ gameOver /\ ~isPlaying
    /\ chicken.isFalling
    /\ now - chicken.fallStartTime >= FALL_DURATION
    /\ hist.op = "frame"

\* C14: every jump, landing and fall sound closes the input for SOUND_GATE ms,
\* and a tick at or before soundEffectGate starts no jump and leaves
\* soundActive and peakVolume as they were (as the effect created them, when
\* the tick is the first of a new closure).
C14_GateIgnoresSamples ==
    [][IsTick =>
        /\ ((hist'.jumped \/ hist'.landed \/ hist'.missed) /\ audioContext) =>
                soundEffectGate' = now' + SOUND_GATE
        /\ now' <= soundEffectGate =>
            /\ ~hist'.jumped
            /\ loop'.soundActive = (IF hist'.op = "frame" THEN loop.soundActive ELSE FALSE)
            /\ loop'.peakVolume = (IF hist'.op = "frame" THEN loop.peakVolume ELSE 0)]_vars

\* A frame that ran, on the ground, while the gate of a landing was closed.
C14_Witness ==
    /\ hist.op = "frame"
    /\ ~hist.jumped /\ ~hist.landed /\ ~hist.missed
    /\ ~chicken.isJumping /\ ~chicken.isFalling
    /\ score > 0
    /\ now <= soundEffectGate

\* C15: without an analyser no jump ever starts: the chicken stays grounded
\* on platform 0 with score 0.
C15_NoAnalyserNoJump ==
    ~analyser =>
        /\ ~chicken.isJumping /\ ~chicken.isFalling
        /\ chicken.jumpStartTime = 0
        /\ currentPlatformId = 0
        /\ score = 0
        /\ ~loop.soundActive /\ loop.peakVolume = 0

\* A session started after a denial has run frames for a second.
C15_Witness ==
    /\ ~analyser
    /\ isPlaying
    /\ hist.op = "frame"
    /\ now >= StartTime + 1000
    /\ chicken = InitialChicken

\* C16: initGame, from any state of a mounted component, leaves score 0,
\* currentPlatformId 0, the chicken grounded and centred on the platform
\* with id 0 at x = 100, 31 platforms, gameOver false and isPlaying true,
\* and leaves highScore and the stored best alone.
C16_InitGameResets ==
    [][(hist'.init /\ mounted) =>
        /\ score' = 0
        /\ currentPlatformId' = 0
        /\ ~chicken'.isJumping /\ ~chicken'.isFalling
        /\ chicken'.jumpDistance = 0
        /\ Len(platforms') = 31
        /\ platforms'[1].id = 0 /\ platforms'[1].x = 100
        /\ chicken'.x = Px(platforms'[1].x + 20)
        /\ chicken'.y = Py(PLATFORM_Y - CHICKEN_SIZE)
        /\ ~gameOver'
        /\ isPlaying'
        /\ highScore' = highScore
        /\ storage' = storage]_vars

\* Play Again after a game over that left a best score.
C16_Witness ==
    /\ hist.op = "restartGame"
    /\ hist.init
    /\ isPlaying /\ ~gameOver
    /\ score = 0
    /\ highScore >= 8
    /\ chicken = InitialChicken

\* The step is a frame on which the sound that was active ended.
FallingEdge == hist'.op = "frame" /\ loop.soundActive /\ ~loop'.soundActive

\* C17: the tick that computes a strength k (the sound ended while grounded)
\* starts a jump with jumpDistance k and targetPlatformId = currentPlatformId
\* + k, whether or not that platform is live; jumpEndX is the platform's x +
\* 20 when it is live and the chicken's x + 120 k when it is not.
C17_JumpAlwaysStarts ==
    [][FallingEdge =>
        LET k == chicken'.jumpDistance
            i == FindPlatform(platforms, currentPlatformId + k)
        IN  /\ ~chicken.isJumping /\ ~chicken.isFalling
            /\ hist'.jumped /\ chicken'.isJumping
            /\ k \in 1..3
            /\ chicken'.targetPlatformId = currentPlatformId + k
            /\ chicken'.jumpStartTime = now'
            /\ chicken'.jumpStartX = chicken.x
            /\ chicken'.jumpEndX = IF i # 0 THEN Px(platforms[i].x + 20)
                                   ELSE chicken.x + Px(120 * k)]_vars

\* A jump has started towards a platform that is not in the list.
C17_Witness ==
    /\ hist.jumped
    /\ chicken.isJumping
    /\ FindPlatform(platforms, chicken.targetPlatformId) = 0
    /\ chicken.targetPlatformId = currentPlatformId + chicken.jumpDistance
    /\ chicken.jumpEndX = chicken.jumpStartX + Px(UNIT_DISTANCE * chicken.jumpDistance)

\* C18: when the sound ends the strength is 3 for a peak above 50, 2 for a
\* peak above 30 and at most 50, 1 for a peak above 15 and at most 30, the
\* peak being the largest sample evaluated since the sound became active
\* (hist.peak); it is never 0; and peakVolume is 0 whenever soundActive is
\* false.
C18_StrengthFromPeak ==
    [][/\ ~loop'.soundActive => loop'.peakVolume = 0
       /\ loop'.soundActive => (loop'.peakVolume = hist'.peak /\ hist'.peak > 15)
       /\ FallingEdge =>
            /\ hist'.jumped
            /\ hist.peak > 15
            /\ chicken'.jumpDistance = (IF hist.peak > 50 THEN 3
                                        ELSE IF hist.peak > 30 THEN 2
                                        ELSE 1)]_vars

\* A hop of strength 1 after a sound whose peak was exactly 30.
C18_Witness ==
    /\ hist.jumped
    /\ chicken.jumpDistance = 1
    /\ chicken.jumpStartTime = now
    /\ hist.jumpSample = 15
    /\ ~loop.soundActive /\ loop.peakVolume = 0

\* C19: in the list initGame builds, the 10 platforms after the first have
\* gap 1 (ids 1..10), the next 10 a gap of 1 or 2, the last 10 a gap of 1, 2
\* or 3.
C19_InitialGapBands ==
    [][hist'.init =>
        /\ Len(platforms') = 1 + INITIAL_PLATFORMS
        /\ \A i \in 2..11 : platforms'[i].distance = 1 /\ platforms'[i].id = i - 1
        /\ \A i \in 12..21 : platforms'[i].distance \in {1, 2}
        /\ \A i \in 22..31 : platforms'[i].distance \in {1, 2, 3}
        /\ \A i \in 2..31 :
              platforms'[i].x = platforms'[i - 1].x + UNIT_DISTANCE * platforms'[i].distance]_vars

\* initGame has built a list with a gap of 2 in the middle band and gaps of
\* 2 and 3 in the last.
C19_Witness ==
    /\ hist.init
    /\ Len(platforms) = 31
    /\ \E i \in 12..21 : platforms[i].distance = 2
    /\ \E i \in 22..31 : platforms[i].distance = 2
    /\ \E i \in 22..31 : platforms[i].distance = 3


\* A call of gameLoop of the spelling game.
IsSpellingTick == spelling'.hist.op \in {"frame", "effect"} /\ spelling' # spelling

\* The words of the list that the coming tick moves to the ground.
Landing == {i \in DOMAIN spelling.fallingWords :
               spelling.fallingWords[i].y + spelling.fallingWords[i].speed
                   >= Tenths(CANVAS_HEIGHT)}

\* C20: every word that reaches the ground (y >= 600) without a correct
\* click takes exactly one life and leaves the list in that tick; a word
\* clicked correctly takes none, also when it lands before its 300 ms
\* removal runs; no other step of a running game changes the lives.
C20_GroundCostsOneLife ==
    [][ /\ IsSpellingTick =>
             /\ spelling'.lives = spelling.lives
                  - Cardinality({i \in Landing :
                                   spelling.fallingWords[i].clickedCorrectly # "true"})
             /\ \A i \in Landing :
                    \A j \in DOMAIN spelling'.fallingWords :
                       spelling'.fallingWords[j].id # spelling.fallingWords[i].id
        /\ (~IsSpellingTick /\ spelling'.hist.op # "start") =>
             spelling'.lives = spelling.lives ]_vars

\* A correctly clicked word landed while its removal timeout was still
\* pending, in a game that had already lost a life to another word.
C20_Witness ==
    /\ spelling.hist.op = "frame"
    /\ spelling.hist.landedCorrect
    /\ spelling.timers # {}
    /\ spelling.lives < INITIAL_LIVES

\* C21: when game over is reported with a score above the best so far, the
\* condition of the 'New High Score!' line (score > highScore) holds in the
\* game-over state the overlay renders.
C21_NewHighScoreShown ==
    [][(GameEnds /\ score > highScore) => score' > highScore']_vars

\* The tick leaves gameLoop at the return of the completed fall, before the
\* platforms are generated.
FallCompletes ==
    /\ IsTick
    /\ chicken.isFalling
    /\ now' - chicken.fallStartTime >= FALL_DURATION

\* The last platform of the list the tick starts with is within two canvas
\* widths of the chicken as the tick's jump animation leaves it.
LastIsNear == Px(Last(platforms).x) < chicken'.x + Px(1600)

\* The step pushed a platform after the last one.
Appends == Last(platforms').id # Last(platforms).id

\* What every tick does to the list: at most one platform is pushed, it is
\* the last, its gap is 1, 2 or 3, its x and id are the last platform's plus
\* 120 * gap and plus gap, and every other platform that stays is unchanged.
AppendShape ==
    /\ \A i \in DOMAIN platforms' :
          i < Len(platforms') => platforms'[i] \in PlatformSet(platforms)
    /\ IF Appends
       THEN \E gap \in 1..3 :
              Last(platforms') = [x |-> Last(platforms).x + 120 * gap, y |-> PLATFORM_Y,
                                  distance |-> gap, id |-> Last(platforms).id + gap]
       ELSE Last(platforms') = Last(platforms)

\* C22 as stated: every tick pushes exactly one platform precisely when the
\* last platform's x is below the chicken's x + 1600, and none otherwise.
C22_AppendsWheneverNear ==
    [][IsTick => (AppendShape /\ (Appends <=> LastIsNear))]_vars

\* C22: a tick pushes at most one platform; a tick that does not return at
\* the completed fall pushes exactly one precisely when the last platform's x
\* is below the chicken's x + 1600; the tick that returns at the completed
\* fall pushes none.
C22_AppendsWhenNear ==
    [][IsTick =>
        /\ AppendShape
        /\ ~FallCompletes => (Appends <=> LastIsNear)
        /\ FallCompletes => ~Appends]_vars

\* The completed fall returned before a platform that was due was pushed.
C22_Witness ==
    /\ gameOver
    /\ chicken.isFalling
    /\ now - chicken.fallStartTime >= FALL_DURATION
    /\ Px(Last(platforms).x) < chicken.x + Px(1600)

\* C23: the gap of a platform pushed during play follows the band of the
\* score when the tick runs: 1 below 10, 1 or 2 from 10 to 19, and 1, 2 or 3
\* from 20 on.
C23_GapFollowsScoreBand ==
    [][(IsTick /\ Appends) =>
        LET gap == Last(platforms').distance IN
        /\ loop'.score = score
        /\ score < 10 => gap = 1
        /\ (score >= 10 /\ score < 20) => gap \in {1, 2}
        /\ score >= 20 => gap \in {1, 2, 3}]_vars

\* Play has pushed a gap of 2 in the band from 10 and a gap of 3 in the band
\* from 20.
C23_Witness ==
    /\ hist.appended
    /\ score >= 20
    /\ Last(platforms).distance = 3
    /\ \E i \in DOMAIN platforms :
          platforms[i].id > INITIAL_PLATFORMS + 1 /\ platforms[i].distance = 2

\* C24: a tick of a falling chicken reports game over exactly when at least
\* 506 ms have passed since fallStartTime, which is exactly when its y is
\* above 600; so game over comes before the 800 ms of the fall animation
\* whenever a tick falls in between, and never earlier than 506 ms.
C24_FallEndsAt506 ==
    [][(IsTick /\ chicken'.isFalling) =>
        LET elapsed == now' - chicken'.fallStartTime IN
        /\ chicken'.y > Py(CANVAS_HEIGHT) <=> elapsed >= 506
        /\ elapsed >= 506 => (gameOver' /\ ~isPlaying')
        /\ elapsed < 506 => (~gameOver' /\ isPlaying')]_vars

\* Game over reported 506 ms into a fall, after a tick at 505 ms or less
\* that reported none.
C24_Witness ==
    /\ gameOver /\ ~isPlaying
    /\ chicken.isFalling
    /\ now - chicken.fallStartTime = 506
    /\ chicken.y > Py(CANVAS_HEIGHT)
    /\ chicken.y < Py(CANVAS_HEIGHT + 1)

\* C25: lives stay within 0..5; the game is over exactly when the lives are
\* 0, and then isPlaying is false; game over is reported by the step on
\* which a life loss brings the lives to 0 and by no other; while the game
\* is over neither lives nor score change, until restartGame sets them to 5
\* and 0.
C25_LivesAndGameOver ==
    /\ [](/\ spelling.lives \in 0..INITIAL_LIVES
          /\ spelling.gameOver <=> spelling.lives = 0
          /\ spelling.gameOver => ~spelling.isPlaying)
    /\ [][/\ (~spelling.gameOver /\ spelling'.gameOver)
               <=> (spelling'.lives < spelling.lives /\ spelling'.lives = 0)
          /\ (spelling.gameOver /\ spelling'.gameOver)
               => (spelling'.lives = spelling.lives /\ spelling'.score = spelling.score)
          /\ (spelling.gameOver /\ ~spelling'.gameOver)
               => (/\ spelling'.hist.op = "start"
                   /\ spelling'.lives = INITIAL_LIVES
                   /\ spelling'.score = 0)]_vars

\* A game that scored was lost, the cleanup of its effect has run and the
\* overlay is up.
C25_Witness ==
    /\ spelling.gameOver /\ ~spelling.isPlaying
    /\ spelling.lives = 0
    /\ spelling.score > 0
    /\ spelling.hist.op = "cleanup"

\* The word of the list after the step that is the same object as word w.
SameWord(w) ==
    {v \in PlatformSet(spelling'.fallingWords) : v.game = w.game /\ v.id = w.id}

\* C26: a word whose clickedSide is set keeps its clickedSide, its
\* clickedCorrectly and its speed for as long as it is in the list; a click
\* on it changes nothing; the score rises only by 1, on the click that sets
\* the clickedSide of a word that had none and marks it correct.
C26_OneClickPerWord ==
    [][/\ \A w \in PlatformSet(spelling.fallingWords) :
            w.clickedSide # "null" =>
                \A v \in SameWord(w) :
                    /\ v.clickedSide = w.clickedSide
                    /\ v.clickedCorrectly = w.clickedCorrectly
                    /\ v.speed = w.speed
       /\ spelling'.hist.clicked = "ignored" =>
            spelling' = [spelling EXCEPT !.hist = spelling'.hist]
       /\ (spelling'.score # spelling.score /\ spelling'.hist.op # "start") =>
            /\ spelling'.score = spelling.score + 1
            /\ \E w \in PlatformSet(spelling.fallingWords) :
                  /\ w.clickedSide = "null"
                  /\ \E v \in SameWord(w) : v.clickedCorrectly = "true"]_vars

\* A word clicked wrongly at the first height was clicked again at the
\* second, and the click was ignored.
C26_Witness ==
    /\ spelling.hist.clicked = "ignored"
    /\ \E w \in PlatformSet(spelling.fallingWords) :
          /\ w.clickedCorrectly = "false"
          /\ w.y >= Tenths(590)

\* C27: a wrong click sets the speed of the clicked word to 3 times the
\* current fall speed, which is more than the word had; the current fall
\* speed is 1.0 after every initGame, a correct click adds 0.1 to it up to
\* 3.0, nothing else changes it, and it always lies between 1.0 and 3.0.
C27_FallSpeeds ==
    /\ [](spelling.currentSpeed \in Tenths(INITIAL_FALL_SPEED)..Tenths(MAX_FALL_SPEED))
    /\ [][/\ spelling'.hist.clicked = "wrong" =>
                \E w \in PlatformSet(spelling.fallingWords) :
                    /\ w.clickedSide = "null"
                    /\ \E v \in SameWord(w) :
                          /\ v.clickedCorrectly = "false"
                          /\ v.speed = 3 * spelling.currentSpeed
                          /\ v.speed > w.speed
          /\ spelling'.hist.op = "start" =>
                spelling'.currentSpeed = Tenths(INITIAL_FALL_SPEED)
          /\ spelling'.hist.clicked = "correct" =>
                spelling'.currentSpeed =
                    IF spelling.currentSpeed + 1 <= Tenths(MAX_FALL_SPEED)
                    THEN spelling.currentSpeed + 1
                    ELSE Tenths(MAX_FALL_SPEED)
          /\ spelling'.currentSpeed # spelling.currentSpeed =>
                \/ spelling'.hist.op = "start"
                \/ spelling'.hist.clicked = "correct"]_vars

\* In a second game, after a first one that had raised the speed, the
\* twenty-first correct click has left the speed at 3.0 and the next word
\* has just been clicked wrongly.
C27_Witness ==
    /\ spelling.games = 2
    /\ spelling.highScore = 1
    /\ spelling.score = 21
    /\ spelling.currentSpeed = Tenths(MAX_FALL_SPEED)
    /\ spelling.hist.clicked = "wrong"
    /\ \E w \in PlatformSet(spelling.fallingWords) :
          w.clickedCorrectly = "false" /\ w.speed = 3 * Tenths(MAX_FALL_SPEED)

\* C28: the chicken is never jumping and falling at once; while it jumps,
\* jumpDistance is 1, 2 or 3 and targetPlatformId is currentPlatformId +
\* jumpDistance; while it does not jump, jumpDistance is 0.
C28_JumpState ==
    /\ ~(chicken.isJumping /\ chicken.isFalling)
    /\ chicken.isJumping =>
          /\ chicken.jumpDistance \in {1, 2, 3}
          /\ chicken.targetPlatformId = currentPlatformId + chicken.jumpDistance
    /\ ~chicken.isJumping => chicken.jumpDistance = 0

\* A jump of strength 3 under way from a platform reached by an earlier
\* jump.
C28_Witness ==
    /\ chicken.isJumping
    /\ chicken.jumpDistance = 3
    /\ currentPlatformId > 0
    /\ chicken.x > chicken.jumpStartX

\* C29: every platform of the live list has x = 100 + 120 * id.
C29_IdIsDistance ==
    \A p \in PlatformSet(platforms) : p.x = FIRST_PLATFORM_X + UNIT_DISTANCE * p.id

\* The first platforms have been evicted and the tick has just appended a
\* platform after a gap of 3.
C29_Witness ==
    /\ platforms # <<>>
    /\ platforms[1].id > 0
    /\ hist.appended
    /\ Last(platforms).id > INITIAL_PLATFORMS
    /\ Last(platforms).distance = 3

\* The chicken stands: it neither jumps nor falls.
Grounded == ~chicken.isJumping /\ ~chicken.isFalling

\* The chicken stands on the live platform numbered currentPlatformId.
OnCurrentPlatform ==
    /\ chicken.y = Py(PLATFORM_Y - CHICKEN_SIZE)
    /\ \E p \in PlatformSet(platforms) :
          /\ p.id = currentPlatformId
          /\ chicken.x = Px(p.x + 20)

\* C30 as stated: whenever the chicken is grounded, the platform numbered
\* currentPlatformId is live and the chicken is at its x + 20 and at y 360.
C30_GroundedOnPlatform == Grounded => OnCurrentPlatform

\* C30 from the first initGame on: whenever platforms have been laid out
\* and the chicken is grounded, the platform numbered currentPlatformId is
\* live and the chicken is at its x + 20 and at y 360.
C30_GroundedOnPlatformInGame == (platforms # <<>> /\ Grounded) => OnCurrentPlatform

\* The chicken has landed on a platform far enough for the first platform
\* to have been evicted.
C30_Witness ==
    /\ Grounded
    /\ currentPlatformId > 0
    /\ platforms # <<>>
    /\ platforms[1].id > 0
    /\ hist.op = "frame"

\* C31: a jump that starts, with its target platform live or absent, gets
\* as jumpEndX the centred x of the place numbered targetPlatformId, that
\* is 100 + 120 * targetPlatformId + 20, which is also the x the chicken
\* had plus 120 for each unit of the jump.
C31_JumpEndIsCentredTarget ==
    [][JumpStarts =>
        /\ chicken'.jumpEndX =
              Px(FIRST_PLATFORM_X + UNIT_DISTANCE * chicken'.targetPlatformId + 20)
        /\ chicken'.jumpEndX = chicken.x + Px(UNIT_DISTANCE * chicken'.jumpDistance)]_vars

\* A jump of strength 2 or 3 has just started towards a place where no
\* platform is live.
C31_Witness ==
    /\ hist.jumped
    /\ ~hist.targetLive
    /\ chicken.isJumping
    /\ chicken.jumpDistance >= 2
    /\ FindPlatform(platforms, chicken.targetPlatformId) = 0

\* The last platform of the list reaches at least as far as the chicken.
LastIsAhead == Px(Last(platforms).x + PLATFORM_WIDTH) >= chicken.x

\* C32 as stated: in every reachable state the platform list is not empty
\* and its last platform reaches at least as far as the chicken.
C32_LastPlatformAhead == platforms # <<>> /\ LastIsAhead

\* C32 from the first initGame on: while a game is played the platform
\* list is not empty, a list that is not empty never becomes empty, the
\* last platform of a list that is not empty reaches at least as far as
\* the chicken, and a game ends only with the chicken falling, never in
\* the middle of a jump.
C32_LastPlatformAheadInGame ==
    /\ [](isPlaying => platforms # <<>>)
    /\ [](platforms # <<>> => LastIsAhead)
    /\ [][/\ platforms # <<>> => platforms' # <<>>
          /\ GameEnds => (chicken'.isFalling /\ ~chicken'.isJumping)]_vars

\* The chicken is in the middle of a jump over an absent platform, in a
\* tick that appended a platform after the first ones had been evicted.
C32_Witness ==
    /\ chicken.isJumping
    /\ chicken.x > chicken.jumpStartX
    /\ FindPlatform(platforms, chicken.targetPlatformId) = 0
    /\ hist.appended
    /\ platforms[1].id > 0

\* The step creates a word.
Spawned == spelling'.wordIdCounter > spelling.wordIdCounter

\* C33: the list never holds more than one word; a word enters the list
\* only by a spawn, and a spawn happens only in a tick of the game loop
\* that found the list empty more than 500 ms after the spawn before it
\* (or after initGame, which restarts the count).
C33_OneWordAtATime ==
    /\ [](Len(spelling.fallingWords) <= 1)
    /\ [][/\ (\E v \in PlatformSet(spelling'.fallingWords) :
                 \A w \in PlatformSet(spelling.fallingWords) :
                    v.id # w.id \/ v.game # w.game) => Spawned
          /\ Spawned =>
                /\ spelling.fallingWords = <<>>
                /\ spelling'.wordIdCounter = spelling.wordIdCounter + 1
                /\ Len(spelling'.fallingWords) = 1
                /\ \/ /\ spelling'.hist.op = "frame"
                      /\ \E dt \in SpellingFrameDeltas :
                            spelling.sinceSpawn + dt > SPAWN_GAP
                   \/ /\ spelling'.hist.op = "effect"
                      /\ spelling.sinceSpawn > SPAWN_GAP]_vars

\* A word clicked correctly as soon as it appeared has been removed, and
\* a tick has found the list empty less than 500 ms after the spawn and
\* has spawned nothing.
C33_Witness ==
    /\ spelling.isPlaying
    /\ spelling.hist.op = "frame"
    /\ spelling.fallingWords = <<>>
    /\ spelling.wordIdCounter >= 1
    /\ spelling.sinceSpawn > REMOVE_DELAY
    /\ spelling.sinceSpawn <= SPAWN_GAP

====
